---- MODULE Spec2Model ----
(***************************************************************************)
(* LACT daemon: the fan-curve engine (fan_control.rs) and the event        *)
(* orchestration core (lib.rs).                                            *)
(*                                                                         *)
(* The fan-curve engine computes in IEEE-754 single precision (f32).  An   *)
(* f32 value is modelled exactly, as the record [m, e] standing for        *)
(* m * 2^e with |m| < 2^24, and every arithmetic operation rounds its      *)
(* exact result to 24 significant bits, ties to even, as the hardware      *)
(* does.  Subnormals, infinities and NaN are outside the input sets.       *)
(* Temperatures of a reading are f32 values that are whole multiples of    *)
(* 1/TempDen degree, held as that integer multiple.                        *)
(***************************************************************************)
EXTENDS Integers, Sequences, FiniteSets

VARIABLES
    curve,      \* FanCurve: the user curve, a function from i32 keys to f32 ratios
    last,       \* the most recent pwm_at_temp call: None or Some([temp, out])
    prev,       \* the pwm_at_temp call before that one
    hw,         \* PmfwCurve read from the device: [points, allowed_ranges]
    conv,       \* the result of into_pmfw_curve: None or Some(result)
    checked,    \* the result of validate: None or Some("Ok") or Some("Err")
    gate,       \* run up to the spawns: [pc, file, uptime, sleeps, sleep_ms]
    proc,       \* the process: "running", "failed" (Server::new), "exited" (process::exit)
    exit,       \* listen_exit_signals: [pc, received, delivered, cleanups, socket_cleanups, exits, status]
    bridge,     \* listen_config_changes: [pc, new_config, swaps, applies, result, processed]
    rx,         \* the watcher's channel: [queue, sent, open]
    config,     \* handler.config, the RwLock: [value, writer, waiting]
    readers,    \* the readers of handler.config: each [pc, begun]
    debounce,   \* listen_device_events: [pc, elapsed, reloads, taken]
    notify,     \* the Notify and the kernel event listener: [permit, alive, events, covered]
    burst       \* the times of the notifications: [since, spaced, quiet]

fanVars == <<curve, last, prev, hw, conv, checked>>

daemonVars == <<gate, proc, exit, bridge, rx, config, readers, debounce, notify, burst>>

vars == <<curve, last, prev, hw, conv, checked, gate, proc, exit, bridge, rx, config,
          readers, debounce, notify, burst>>

----------------------------------------------------------------------------
(* Option<T> *)

None == << >>

Some(v) == <<v>>

IsSome(o) == o # << >>

Unwrap(o) == o[1]

----------------------------------------------------------------------------
(* f32 arithmetic *)

Abs(n) == IF n < 0 THEN -n ELSE n

Sgn(n) == IF n < 0 THEN -1 ELSE 1

Pow2(k) == 2 ^ k

RECURSIVE BitLen(_)
BitLen(n) == IF n = 0 THEN 0 ELSE 1 + BitLen(n \div 2)

\* the canonical record of m * 2^e: m odd, or zero
RECURSIVE Norm(_, _)
Norm(m, e) ==
    IF m = 0 THEN [m |-> 0, e |-> 0]
    ELSE IF m % 2 = 0 THEN Norm(m \div 2, e + 1)
    ELSE [m |-> m, e |-> e]

\* round to nearest, ties to even: q is the kept part, r the dropped part
\* out of 2*half, sticky whether anything nonzero lies below r
RoundUp(q, r, half, sticky) ==
    \/ r > half
    \/ r = half /\ sticky
    \/ r = half /\ ~sticky /\ q % 2 = 1

\* n * 2^e with |n| < 2^31, rounded to 24 significant bits
F32Round(n, e) ==
    LET a == Abs(n)
        k == BitLen(a)
    IN  IF k <= 24 THEN Norm(n, e)
        ELSE LET s == k - 24
                 q == a \div Pow2(s)
                 r == a % Pow2(s)
                 q2 == IF RoundUp(q, r, Pow2(s - 1), FALSE) THEN q + 1 ELSE q
             IN  Norm(Sgn(n) * q2, e + s)

\* (H * 2^24 + L + sticky) * 2^e with 0 < H <= 2^24, 0 <= L < 2^24, rounded to 24 bits
F32Round48(sign, H, L, sticky, e) ==
    LET k == BitLen(H) IN
    IF k = 25 THEN Norm(sign * (H \div 2), e + 25)
    ELSE LET q == H * Pow2(24 - k) + (L \div Pow2(k))
             r == L % Pow2(k)
             q2 == IF RoundUp(q, r, Pow2(k - 1), sticky) THEN q + 1 ELSE q
         IN  Norm(sign * q2, e + k)

F32Neg(x) == [m |-> -x.m, e |-> x.e]

\* x + y: the operand of larger magnitude is widened to 29 bits, the other is
\* aligned to it and what falls below the last bit is kept as a sticky bit
F32Add(x, y) ==
    IF x.m = 0 THEN y
    ELSE IF y.m = 0 THEN x
    ELSE
      LET xTop == x.e + BitLen(Abs(x.m))
          yTop == y.e + BitLen(Abs(y.m))
          big == IF xTop >= yTop THEN x ELSE y
          sml == IF xTop >= yTop THEN y ELSE x
          sh == 29 - BitLen(Abs(big.m))
          eb == big.e - sh
          B == big.m * Pow2(sh)
          d == sml.e - eb
          S == IF d >= 0 THEN sml.m * Pow2(d)
               ELSE IF -d >= 25 THEN 0
               ELSE Sgn(sml.m) * (Abs(sml.m) \div Pow2(-d))
          sticky == IF d >= 0 THEN FALSE
                    ELSE IF -d >= 25 THEN TRUE
                    ELSE Abs(sml.m) % Pow2(-d) # 0
          T == 2 * (B + S) + (IF sticky THEN Sgn(sml.m) ELSE 0)
      IN  F32Round(T, eb - 1)

F32Sub(x, y) == F32Add(x, F32Neg(y))

\* x * y: the 48-bit product of the two mantissas in 12-bit limbs
F32Mul(x, y) ==
    IF x.m = 0 \/ y.m = 0 THEN [m |-> 0, e |-> 0]
    ELSE
      LET a1 == Abs(x.m) \div 4096
          b1 == Abs(x.m) % 4096
          a2 == Abs(y.m) \div 4096
          b2 == Abs(y.m) % 4096
          mid == a1 * b2 + a2 * b1
          t == (mid % 4096) * 4096 + b1 * b2
          L == t % Pow2(24)
          H == a1 * a2 + (mid \div 4096) + (t \div Pow2(24))
          sign == Sgn(x.m) * Sgn(y.m)
      IN  IF H = 0 THEN Norm(sign * L, x.e + y.e)
          ELSE F32Round48(sign, H, L, FALSE, x.e + y.e)

\* (n as f32) / (d as f32) for integers 0 <= n <= d, 0 < d < 2^12: long division
\* of n * 2^48 by d in 12-bit steps
F32DivInt(n, d) ==
    IF n = 0 THEN [m |-> 0, e |-> 0]
    ELSE
      LET Q1 == (n * 4096) \div d
          R1 == (n * 4096) % d
          Q2 == (R1 * 4096) \div d
          R2 == (R1 * 4096) % d
          Q3 == (R2 * 4096) \div d
          R3 == (R2 * 4096) % d
          Q4 == (R3 * 4096) \div d
          R4 == (R3 * 4096) % d
      IN  F32Round48(1, Q1 * 4096 + Q2, Q3 * 4096 + Q4, R4 # 0, -48)

\* n more bits of the quotient of r / b, r < b: <<quotient, remainder>>
RECURSIVE DivBits(_, _, _, _)
DivBits(r, b, n, q) ==
    IF n = 0 THEN <<q, r>>
    ELSE IF 2 * r >= b THEN DivBits(2 * r - b, b, n - 1, 2 * q + 1)
    ELSE DivBits(2 * r, b, n - 1, 2 * q)

\* x / y, y nonzero: both mantissas widened to 24 bits, 27 bits of quotient by
\* long division, the remainder kept as a sticky bit
F32Div(x, y) ==
    IF x.m = 0 THEN [m |-> 0, e |-> 0]
    ELSE
      LET sa == 24 - BitLen(Abs(x.m))
          sb == 24 - BitLen(Abs(y.m))
          a == Abs(x.m) * Pow2(sa)
          b == Abs(y.m) * Pow2(sb)
          first == IF a >= b THEN 1 ELSE 0
          res == DivBits(a - first * b, b, 26, first)
          T == 2 * res[1] + (IF res[2] # 0 THEN 1 ELSE 0)
      IN  F32Round(Sgn(x.m) * Sgn(y.m) * T, (x.e - sa) - (y.e - sb) - 27)

\* x <= y and x < y: the sign of the rounded difference is that of the exact one
F32Leq(x, y) == F32Sub(x, y).m <= 0

F32Lt(x, y) == F32Sub(x, y).m < 0

\* `as u8` of an f32: truncation toward zero, saturating at 0 and 255
as_u8(x) ==
    IF x.m <= 0 THEN 0
    ELSE IF x.e >= 0
         THEN IF BitLen(x.m) + x.e > 8 THEN 255 ELSE x.m * Pow2(x.e)
    ELSE IF -x.e >= 25 THEN 0
    ELSE LET v == x.m \div Pow2(-x.e) IN IF v > 255 THEN 255 ELSE v

----------------------------------------------------------------------------
(* fan_control.rs: FanCurveExt for FanCurve *)

\* one degree is TempDen units of a reading's temperature
TempDen == 2

U8Max == 255

F32Zero == [m |-> 0, e |-> 0]

F32One == [m |-> 1, e |-> 0]

\* an integer below 2^24 as f32 is exact
F32FromInt(n) == Norm(n, 0)

\* `current as i32`: truncation toward zero
as_i32(c) == IF c >= 0 THEN c \div TempDen ELSE -((-c) \div TempDen)

SetMax(S) == CHOOSE x \in S : \A y \in S : y <= x

SetMin(S) == CHOOSE x \in S : \A y \in S : x <= y

\* temp.crit.filter(|crit| current > *crit).is_some()
crit_exceeded_ge(temp) == IsSome(temp.crit) /\ Unwrap(temp.current) >= Unwrap(temp.crit)

crit_exceeded(temp) == IsSome(temp.crit) /\ Unwrap(temp.current) > Unwrap(temp.crit)

\* self.0.range(..current).next_back(): the greatest key below current
maybe_lower(c, current) ==
    LET below == {k \in DOMAIN c : k < current}
    IN  IF below = {} THEN None ELSE Some(SetMax(below))

\* self.0.range(current..).next(): the least key at or above current
maybe_higher(c, current) ==
    LET above == {k \in DOMAIN c : k >= current}
    IN  IF above = {} THEN None ELSE Some(SetMin(above))

I32Max == 2147483647

I32Min == -2147483647 - 1

\* a - b leaves the i32 range: the build with overflow checks panics there
sub_overflows(a, b) ==
    \/ b < 0 /\ a > I32Max + b
    \/ b > 0 /\ a < I32Min + b

\* a - b as the build without overflow checks computes it: modulo 2^32
wrapping_sub(a, b) ==
    IF b < 0 /\ a > I32Max + b THEN (a + I32Min) - (b - I32Min)
    ELSE IF b > 0 /\ a < I32Min + b THEN (a - I32Min) - (b + I32Min)
    ELSE a - b

\* `as f32` of an i32: rounded to 24 bits
i32_as_f32(n) == IF n = I32Min THEN [m |-> -1, e |-> 31] ELSE F32Round(n, 0)

\* (current - lower_temp) as f32 / (higher_temp - lower_temp) as f32
speed_ratio(lower_temp, higher_temp, current) ==
    F32Div(i32_as_f32(wrapping_sub(current, lower_temp)),
           i32_as_f32(wrapping_sub(higher_temp, lower_temp)))

\* the (Some, Some) arm: lower_speed + (higher_speed - lower_speed) * speed_ratio
interpolate(c, lower_temp, higher_temp, current) ==
    F32Add(c[lower_temp],
           F32Mul(F32Sub(c[higher_temp], c[lower_temp]),
                  speed_ratio(lower_temp, higher_temp, current)))

\* (f32::from(u8::MAX) * percentage) as u8
scale_to_u8(percentage) == as_u8(F32Mul(F32FromInt(U8Max), percentage))

Panic == [kind |-> "Panic", val |-> -1, warned |-> FALSE]

Pwm(v, w) == [kind |-> "Ok", val |-> v, warned |-> w]

\* FanCurve::pwm_at_temp; warned records the warn! of the critical clamp
pwm_at_temp(c, temp) ==
    IF ~IsSome(temp.current) THEN Panic
    ELSE IF crit_exceeded(temp) THEN Pwm(U8Max, TRUE)
    ELSE
      LET current == as_i32(Unwrap(temp.current))
          lo == maybe_lower(c, current)
          hi == maybe_higher(c, current)
      IN  IF IsSome(lo) /\ IsSome(hi)
            THEN Pwm(scale_to_u8(interpolate(c, Unwrap(lo), Unwrap(hi), current)), FALSE)
          ELSE IF IsSome(lo) THEN Pwm(scale_to_u8(c[Unwrap(lo)]), FALSE)
          ELSE IF IsSome(hi) THEN Pwm(scale_to_u8(c[Unwrap(hi)]), FALSE)
          ELSE Panic

\* a subtraction of the (Some, Some) arm overflows
interpolation_overflows(c, temp) ==
    /\ IsSome(temp.current) /\ ~crit_exceeded(temp)
    /\ LET current == as_i32(Unwrap(temp.current))
           lo == maybe_lower(c, current)
           hi == maybe_higher(c, current)
       IN  /\ IsSome(lo) /\ IsSome(hi)
           /\ \/ sub_overflows(current, Unwrap(lo))
              \/ sub_overflows(Unwrap(hi), Unwrap(lo))

\* what a call can end in: where a subtraction overflows, the panic of a build
\* with overflow checks or the value of a build without them
PwmOutcomes(c, temp) ==
    IF interpolation_overflows(c, temp) THEN {Panic, pwm_at_temp(c, temp)}
    ELSE {pwm_at_temp(c, temp)}

\* BTreeMap::into_iter: the points in ascending key order
RECURSIVE Ascending(_)
Ascending(keys) ==
    IF keys = {} THEN << >>
    ELSE LET k == SetMin(keys) IN <<k>> \o Ascending(keys \ {k})

\* (ratio * 100.0) as u8
custom_percent(ratio) == as_u8(F32Mul(F32FromInt(100), ratio))

\* RangeInclusive::contains
Contains(range, x) == range[1] <= x /\ x <= range[2]

ConvErr(e) == [kind |-> "Err", err |-> e, points |-> << >>, allowed_ranges |-> None]

\* the closure of the map: the first failing check of one point, or none
PointErr(c, k, ranges) ==
    IF ~Contains(ranges.temperature_range, k)
      THEN Some(<<"Temperature", k, ranges.temperature_range[1], ranges.temperature_range[2]>>)
    ELSE IF ~Contains(ranges.speed_range, custom_percent(c[k]))
      THEN Some(<<"Speed", custom_percent(c[k]), ranges.speed_range[1], ranges.speed_range[2]>>)
    ELSE None

\* FanCurve::into_pmfw_curve
into_pmfw_curve(c, current_pmfw_curve) ==
    LET order == Ascending(DOMAIN c)
        n == Len(order)
    IN
    IF Len(current_pmfw_curve.points) # n
      THEN ConvErr(<<"PointCount", Len(current_pmfw_curve.points), n>>)
    ELSE IF ~IsSome(current_pmfw_curve.allowed_ranges)
      THEN ConvErr(<<"NoRanges">>)
    ELSE
      LET ranges == Unwrap(current_pmfw_curve.allowed_ranges)
          failing == {i \in 1..n : IsSome(PointErr(c, order[i], ranges))}
      IN  IF failing # {}
            THEN ConvErr(Unwrap(PointErr(c, order[SetMin(failing)], ranges)))
          ELSE [kind |-> "Ok", err |-> << >>,
                points |-> [i \in 1..n |-> <<order[i], custom_percent(c[order[i]])>>],
                allowed_ranges |-> Some(ranges)]

\* (0.0..=1.0).contains(percentage)
in_unit_range_upper_only(percentage) == F32Leq(percentage, F32One)

in_unit_range(percentage) == F32Leq(F32Zero, percentage) /\ F32Leq(percentage, F32One)

\* FanCurve::validate: the values in key order, an error at the first outside 0..=1
validate(c) ==
    LET order == Ascending(DOMAIN c)
        failing == {i \in 1..Len(order) : ~in_unit_range(c[order[i]])}
    IN  IF failing # {} THEN "Err" ELSE "Ok"

----------------------------------------------------------------------------
(* lib.rs: the tasks of the daemon *)

DRM_EVENT_TIMEOUT_PERIOD_MS == 100

SHUTDOWN_SIGNALS == {"terminate", "interrupt", "quit", "hangup"}

MaxSignals == 2

MaxSnapshots == 2

MaxEvents == 2

NumReaders == 1

\* the clock advances in steps of a TicksPerPeriod-th of the quiet period
TicksPerPeriod == 2

TickMs == DRM_EVENT_TIMEOUT_PERIOD_MS \div TicksPerPeriod

(* run: the uptime gate and the spawns *)

MIN_SYSTEM_UPTIME_SECS == 15

\* `as u64` of an f32 of magnitude below 2^31: truncation toward zero, 0 below 0
as_u64(x) ==
    IF x.m <= 0 THEN 0
    ELSE IF x.e >= 0 THEN x.m * Pow2(x.e)
    ELSE IF -x.e >= 25 THEN 0
    ELSE x.m \div Pow2(-x.e)

\* /proc/uptime as read: whether the read succeeds, and the whitespace-separated
\* tokens of the text, each a number (an f32 once parsed) or not
UptimeFile(readable, tokens) == [readable |-> readable, tokens |-> tokens]

Num(x) == [num |-> TRUE, val |-> x]

Garbage == [num |-> FALSE, val |-> [m |-> 0, e |-> 0]]

UptimeOk(x) == [kind |-> "Ok", val |-> x, err |-> ""]

UptimeErr(e) == [kind |-> "Err", val |-> [m |-> 0, e |-> 0], err |-> e]

\* get_uptime: the first token of the file, parsed
get_uptime(file) ==
    IF ~file.readable THEN UptimeErr("Could not read uptime")
    ELSE IF file.tokens = << >> THEN UptimeErr("Could not parse the uptime file")
    ELSE IF ~Head(file.tokens).num THEN UptimeErr("Invalid uptime value")
    ELSE UptimeOk(Head(file.tokens).val)

\* MIN_SYSTEM_UPTIME_SECS - current_uptime
uptime_diff(current_uptime) == F32Sub(Norm(MIN_SYSTEM_UPTIME_SECS, 0), current_uptime)

\* if diff > 0.0
too_early_or_at(diff) == diff.m >= 0

too_early(diff) == diff.m > 0

\* (diff * 1000.0) as u64
sleep_millis(diff) == as_u64(F32Mul(diff, Norm(1000, 0)))

\* the gate has been passed and the tasks are spawned
GateDone ==
    [pc |-> "spawned", file |-> UptimeFile(FALSE, << >>), uptime |-> << >>, sleeps |-> 0,
     sleep_ms |-> 0]

Spawned == gate.pc = "spawned"

\* uptimes as parsed: 0.0, 3.5, 7.3, 12.125, 14.1, 14.9995, 15.0, 15.01, 20.0, -5.0
UptimeVals ==
    {[m |-> 0, e |-> 0], [m |-> 7, e |-> -1], [m |-> 7654605, e |-> -20], [m |-> 97, e |-> -3], [m |-> 7392461, e |-> -19], [m |-> 3932029, e |-> -18],
     [m |-> 15, e |-> 0], [m |-> 7869563, e |-> -19], [m |-> 5, e |-> 2], [m |-> -5, e |-> 0]}

\* /proc/uptime holds the uptime and the idle time; also an unreadable file, an
\* empty one and ones with a token that is not a number
UptimeFiles ==
    {UptimeFile(FALSE, << >>), UptimeFile(TRUE, << >>), UptimeFile(TRUE, <<Garbage>>),
     UptimeFile(TRUE, <<Garbage, Num([m |-> 7, e |-> -1])>>),
     UptimeFile(TRUE, <<Num([m |-> 7, e |-> -1]), Garbage>>)}
      \cup {UptimeFile(TRUE, <<Num(u), Num([m |-> 5, e |-> 2])>>) : u \in UptimeVals}

\* the match of ensure_sufficient_uptime: what the gate does on a given file
ensure_outcome(file) ==
    LET r == get_uptime(file)
        diff == uptime_diff(r.val)
    IN  IF r.kind = "Ok" /\ too_early(diff)
          THEN [sleeps |-> TRUE, uptime |-> r, millis |-> sleep_millis(diff)]
          ELSE [sleeps |-> FALSE, uptime |-> r, millis |-> 0]

\* ensure_outcome, tabulated over the files
EnsureOutcomes == [file \in UptimeFiles |-> ensure_outcome(file)]

\* ensure_sufficient_uptime up to its sleep, or to its end when it does not sleep
EnsureUptime ==
    /\ proc = "running" /\ gate.pc = "gate"
    /\ LET outcome == EnsureOutcomes[gate.file]
       IN  gate' = IF outcome.sleeps
                     THEN [gate EXCEPT !.pc = "sleep", !.uptime = <<outcome.uptime>>,
                                       !.sleeps = @ + 1, !.sleep_ms = outcome.millis]
                     ELSE [gate EXCEPT !.pc = "returned", !.uptime = <<outcome.uptime>>]
    /\ UNCHANGED <<fanVars, proc, exit, bridge, rx, config, readers, debounce, notify, burst>>

\* tokio::time::sleep(..).await returns and so does ensure_sufficient_uptime
SleepDone ==
    /\ proc = "running" /\ gate.pc = "sleep"
    /\ gate' = [gate EXCEPT !.pc = "returned"]
    /\ UNCHANGED <<fanVars, proc, exit, bridge, rx, config, readers, debounce, notify, burst>>

\* Server::new(config).await? and the spawn_local calls; on Err run returns it
ServerNew ==
    /\ proc = "running" /\ gate.pc = "returned"
    /\ \/ gate' = [gate EXCEPT !.pc = "spawned"] /\ proc' = proc
       \/ gate' = [gate EXCEPT !.pc = "failed"] /\ proc' = "failed"
    /\ UNCHANGED <<fanVars, exit, bridge, rx, config, readers, debounce, notify, burst>>

Running == proc = "running" /\ Spawned

\* one thread runs the tasks: a task is polled only when no other task is in the
\* middle of a poll, between two of its steps that have no await between them
ExitMidPoll == exit.pc \in {"socket", "exit"}

BridgeMidPoll == bridge.pc \in {"write", "apply"}

DebounceMidPoll == debounce.pc = "expired"

ExitTurn == Running /\ ~BridgeMidPoll /\ ~DebounceMidPoll

BridgeTurn == Running /\ ~ExitMidPoll /\ ~DebounceMidPoll

DebounceTurn == Running /\ ~ExitMidPoll /\ ~BridgeMidPoll

ReaderTurn == Running /\ ~ExitMidPoll /\ ~BridgeMidPoll /\ ~DebounceMidPoll

TasksInit ==
    /\ proc = "running"
    /\ exit = [pc |-> "select", received |-> {}, delivered |-> 0, cleanups |-> 0,
               socket_cleanups |-> 0, exits |-> 0, status |-> -1]
    /\ bridge = [pc |-> "recv", new_config |-> 0, swaps |-> 0, applies |-> 0,
                 result |-> "none", processed |-> 0]
    /\ rx = [queue |-> << >>, sent |-> 0, open |-> TRUE]
    /\ config = [value |-> 0, writer |-> FALSE, waiting |-> FALSE]
    /\ readers = [r \in 1..NumReaders |-> [pc |-> "idle", begun |-> 0]]
    /\ debounce = [pc |-> "idle", elapsed |-> 0, reloads |-> 0, taken |-> 0]
    /\ notify = [permit |-> FALSE, alive |-> TRUE, events |-> 0, covered |-> 0]
    /\ burst = [since |-> 0, spaced |-> FALSE, quiet |-> 0]

DaemonInit == gate = GateDone /\ TasksInit

(* listen_exit_signals *)

\* the operating system delivers a termination signal to the process
Signal ==
    /\ Running /\ exit.delivered < MaxSignals
    /\ \E kind \in SHUTDOWN_SIGNALS :
         exit' = [exit EXCEPT !.received = @ \cup {kind}, !.delivered = @ + 1]
    /\ UNCHANGED <<fanVars, gate, proc, bridge, rx, config, readers, debounce, notify, burst>>

\* select_all(signal_futures): ready once any of the streams has a signal
SelectReadyAlways(received) == TRUE

SelectReady(received) == received # {}

\* select_all(...).await returns and handler.cleanup() is called
ExitSelect ==
    /\ ExitTurn /\ exit.pc = "select" /\ SelectReady(exit.received)
    /\ exit' = [exit EXCEPT !.pc = "cleanup", !.cleanups = @ + 1]
    /\ UNCHANGED <<fanVars, gate, proc, bridge, rx, config, readers, debounce, notify, burst>>

\* handler.cleanup().await returns
CleanupFinish ==
    /\ ExitTurn /\ exit.pc = "cleanup"
    /\ exit' = [exit EXCEPT !.pc = "socket"]
    /\ UNCHANGED <<fanVars, gate, proc, bridge, rx, config, readers, debounce, notify, burst>>

\* socket::cleanup()
SocketCleanup ==
    /\ Running /\ exit.pc = "socket"
    /\ exit' = [exit EXCEPT !.pc = "exit", !.socket_cleanups = @ + 1]
    /\ UNCHANGED <<fanVars, gate, proc, bridge, rx, config, readers, debounce, notify, burst>>

\* std::process::exit(0)
ProcessExit ==
    /\ Running /\ exit.pc = "exit"
    /\ exit' = [exit EXCEPT !.pc = "exited", !.exits = @ + 1, !.status = 0]
    /\ proc' = "exited"
    /\ UNCHANGED <<fanVars, gate, bridge, rx, config, readers, debounce, notify, burst>>

(* listen_config_changes *)

\* the watcher sends the next snapshot; snapshots are numbered in the order sent
WatcherSend ==
    /\ Running /\ rx.open /\ rx.sent < MaxSnapshots
    /\ rx' = [rx EXCEPT !.queue = Append(@, rx.sent + 1), !.sent = @ + 1]
    /\ UNCHANGED <<fanVars, gate, proc, exit, bridge, config, readers, debounce, notify, burst>>

\* the watcher drops its sender
WatcherClose ==
    /\ Running /\ rx.open
    /\ rx' = [rx EXCEPT !.open = FALSE]
    /\ UNCHANGED <<fanVars, gate, proc, exit, bridge, config, readers, debounce, notify, burst>>

\* rx.recv().await returns Some(new_config); handler.config.write() is requested
BridgeRecv ==
    /\ BridgeTurn /\ bridge.pc = "recv" /\ rx.queue # << >>
    /\ bridge' = [bridge EXCEPT !.pc = "lock", !.new_config = Head(rx.queue)]
    /\ rx' = [rx EXCEPT !.queue = Tail(@)]
    /\ config' = [config EXCEPT !.waiting = TRUE]
    /\ UNCHANGED <<fanVars, gate, proc, exit, readers, debounce, notify, burst>>

\* rx.recv().await returns None: the loop ends
BridgeEnd ==
    /\ BridgeTurn /\ bridge.pc = "recv" /\ rx.queue = << >> /\ ~rx.open
    /\ bridge' = [bridge EXCEPT !.pc = "done"]
    /\ UNCHANGED <<fanVars, gate, proc, exit, rx, config, readers, debounce, notify, burst>>

\* RwLock::write: granted when no writer and no reader holds the lock
WriteLockFreeIgnoringReaders(cfg, rds) == ~cfg.writer

WriteLockFree(cfg, rds) == ~cfg.writer /\ \A r \in DOMAIN rds : rds[r].pc # "reading"

\* handler.config.write().await returns the guard
BridgeLock ==
    /\ BridgeTurn /\ bridge.pc = "lock" /\ WriteLockFree(config, readers)
    /\ bridge' = [bridge EXCEPT !.pc = "write"]
    /\ config' = [config EXCEPT !.writer = TRUE, !.waiting = FALSE]
    /\ UNCHANGED <<fanVars, gate, proc, exit, rx, readers, debounce, notify, burst>>

\* the same statement with the guard bound to a variable of the loop body
BridgeWriteKeepingGuard ==
    /\ Running /\ bridge.pc = "write"
    /\ config' = [config EXCEPT !.value = bridge.new_config]
    /\ bridge' = [bridge EXCEPT !.pc = "apply", !.swaps = @ + 1]
    /\ UNCHANGED <<fanVars, gate, proc, exit, rx, readers, debounce, notify, burst>>

\* *guard = new_config; the guard is dropped at the end of the statement
BridgeWrite ==
    /\ Running /\ bridge.pc = "write"
    /\ config' = [config EXCEPT !.value = bridge.new_config, !.writer = FALSE]
    /\ bridge' = [bridge EXCEPT !.pc = "apply", !.swaps = @ + 1]
    /\ UNCHANGED <<fanVars, gate, proc, exit, rx, readers, debounce, notify, burst>>

\* handler.apply_current_config() is called
BridgeApply ==
    /\ Running /\ bridge.pc = "apply"
    /\ bridge' = [bridge EXCEPT !.pc = "applying", !.applies = @ + 1]
    /\ UNCHANGED <<fanVars, gate, proc, exit, rx, config, readers, debounce, notify, burst>>

\* where the loop goes after the match on the result of apply_current_config
AfterApplyBreakOnErr(result) == IF result = "Err" THEN "done" ELSE "recv"

AfterApply(result) == "recv"

\* handler.apply_current_config().await returns Ok(()) or Err(err); either is logged
BridgeApplied ==
    /\ BridgeTurn /\ bridge.pc = "applying"
    /\ \E result \in {"Ok", "Err"} :
         bridge' = [bridge EXCEPT !.pc = AfterApply(result), !.result = result,
                                  !.processed = @ + 1]
    /\ UNCHANGED <<fanVars, gate, proc, exit, rx, config, readers, debounce, notify, burst>>

(* the readers of handler.config: the control loop and the protocol handlers *)

\* RwLock::read: granted when no writer holds the lock or waits for it
ReadLockFree(cfg) == ~cfg.writer /\ ~cfg.waiting

\* a reader calls handler.config.read()
ReadBegin(r) ==
    /\ ReaderTurn /\ readers[r].pc = "idle"
    /\ readers' = [readers EXCEPT ![r] = [pc |-> "waiting", begun |-> config.value]]
    /\ UNCHANGED <<fanVars, gate, proc, exit, bridge, rx, config, debounce, notify, burst>>

\* handler.config.read().await returns the guard: the reader sees config.value
ReadAcquire(r) ==
    /\ ReaderTurn /\ readers[r].pc = "waiting" /\ ReadLockFree(config)
    /\ readers' = [readers EXCEPT ![r].pc = "reading"]
    /\ UNCHANGED <<fanVars, gate, proc, exit, bridge, rx, config, debounce, notify, burst>>

\* the reader drops the guard
ReadRelease(r) ==
    /\ ReaderTurn /\ readers[r].pc = "reading"
    /\ readers' = [readers EXCEPT ![r].pc = "idle"]
    /\ UNCHANGED <<fanVars, gate, proc, exit, bridge, rx, config, debounce, notify, burst>>

(* listen_device_events *)

\* time passes: the pending timeout, the time since the last notification was
\* raised (since) and the time since the debouncer last took one (quiet)
Tick ==
    /\ Running
    /\ debounce' = [debounce EXCEPT !.elapsed =
                      IF debounce.pc = "debounce" /\ @ < DRM_EVENT_TIMEOUT_PERIOD_MS
                        THEN @ + TickMs ELSE @]
    /\ burst' = [burst EXCEPT
                   !.since = IF notify.events > 0 /\ @ < DRM_EVENT_TIMEOUT_PERIOD_MS
                               THEN @ + TickMs ELSE @,
                   !.quiet = IF debounce.pc = "debounce" /\ @ < DRM_EVENT_TIMEOUT_PERIOD_MS
                               THEN @ + TickMs ELSE @]
    /\ UNCHANGED <<fanVars, gate, proc, exit, bridge, rx, config, readers, notify>>

\* listen_netlink_kernel_event: a kernel event wakes the debouncer; the wake is
\* kept in the Notify's single slot until the debouncer takes it
KernelEvent ==
    /\ Running /\ notify.alive /\ notify.events < MaxEvents
    /\ notify' = [notify EXCEPT !.permit = TRUE, !.events = @ + 1]
    /\ burst' = [burst EXCEPT
                   !.since = 0,
                   !.spaced = @ \/ (notify.events > 0
                                      /\ burst.since >= DRM_EVENT_TIMEOUT_PERIOD_MS)]
    /\ UNCHANGED <<fanVars, gate, proc, exit, bridge, rx, config, readers, debounce>>

\* the same failure taking the process down with it
KernelFailExits ==
    /\ Running /\ notify.alive
    /\ notify' = [notify EXCEPT !.alive = FALSE]
    /\ proc' = "exited"
    /\ UNCHANGED <<fanVars, gate, exit, bridge, rx, config, readers, debounce, burst>>

\* listen_netlink_kernel_event returns Err: logged, the blocking task ends
KernelFail ==
    /\ Running /\ notify.alive
    /\ notify' = [notify EXCEPT !.alive = FALSE]
    /\ UNCHANGED <<fanVars, gate, proc, exit, bridge, rx, config, readers, debounce, burst>>

\* notify.notified().await returns: the first notification of an episode
DebounceWake ==
    /\ DebounceTurn /\ debounce.pc = "idle" /\ notify.permit
    /\ notify' = [notify EXCEPT !.permit = FALSE]
    /\ debounce' = [debounce EXCEPT !.pc = "debounce", !.elapsed = 0, !.taken = @ + 1]
    /\ burst' = [burst EXCEPT !.quiet = 0]
    /\ UNCHANGED <<fanVars, gate, proc, exit, bridge, rx, config, readers>>

\* each turn of the while loop builds a new timeout(100 ms, notify.notified())
ArmTimeoutOnce(elapsed) == elapsed

ArmTimeout(elapsed) == 0

\* the timeout returns Ok: a notification came first, the loop goes round
DebounceRestart ==
    /\ DebounceTurn /\ debounce.pc = "debounce" /\ notify.permit
    /\ notify' = [notify EXCEPT !.permit = FALSE]
    /\ debounce' = [debounce EXCEPT !.elapsed = ArmTimeout(@), !.taken = @ + 1]
    /\ burst' = [burst EXCEPT !.quiet = 0]
    /\ UNCHANGED <<fanVars, gate, proc, exit, bridge, rx, config, readers>>

\* Duration::from_millis(DRM_EVENT_TIMEOUT_PERIOD_MS) has passed on the timeout
timeout_elapsed_half(elapsed) == 2 * elapsed >= DRM_EVENT_TIMEOUT_PERIOD_MS

timeout_elapsed(elapsed) == elapsed >= DRM_EVENT_TIMEOUT_PERIOD_MS

\* the timeout returns Err(Elapsed): the while loop ends
DebounceElapsed ==
    /\ DebounceTurn /\ debounce.pc = "debounce" /\ ~notify.permit
    /\ timeout_elapsed(debounce.elapsed)
    /\ debounce' = [debounce EXCEPT !.pc = "expired"]
    /\ UNCHANGED <<fanVars, gate, proc, exit, bridge, rx, config, readers, notify, burst>>

\* handler.reload_gpus() is called, in the same poll of the task
ReloadStart ==
    /\ Running /\ debounce.pc = "expired"
    /\ debounce' = [debounce EXCEPT !.pc = "reload", !.reloads = @ + 1, !.taken = 0]
    /\ notify' = [notify EXCEPT !.covered = notify.events]
    /\ UNCHANGED <<fanVars, gate, proc, exit, bridge, rx, config, readers, burst>>

\* where the task goes once handler.reload_gpus().await has returned: the body
\* is in a loop, so back to notify.notified().await
AfterReloadReturn == "done"

AfterReload == "idle"

\* handler.reload_gpus().await returns
ReloadDone ==
    /\ DebounceTurn /\ debounce.pc = "reload"
    /\ debounce' = [debounce EXCEPT !.pc = AfterReload]
    /\ UNCHANGED <<fanVars, gate, proc, exit, bridge, rx, config, readers, notify, burst>>

----------------------------------------------------------------------------
(* the inputs of the fan-curve engine *)

MaxPoints == 2

LowHalf == 3

MaxHalf == 7

F(m, e) == [m |-> m, e |-> e]

\* the curve holding the given <<key, ratio>> points
CurveOf(points) ==
    [k \in {p[1] : p \in points} |-> (CHOOSE p \in points : p[1] = k)[2]]

Reading(current, crit) == [current |-> current, crit |-> crit]

\* whole degrees as a reading's temperature
Deg(t) == Some(t * TempDen)

KeyTemps == {-1, 0, 2}

\* 0.0, 1.0, -0.5 and 1.5
RatioVals == {F32Zero, F32One, F(-1, -1), F(3, -1)}

\* 0.355
ConvertRatioVals == RatioVals \cup {F(11911823, -25)}

CurvesOver(ratios) ==
    UNION {[K -> ratios] : K \in {S \in SUBSET KeyTemps : Cardinality(S) <= MaxPoints}}

GridCurves == CurvesOver(RatioVals)

\* {0 -> 0.04, 2 -> 0.2}
ShallowCurve == CurveOf({<<0, F(5368709, -27)>>, <<2, F(13421773, -26)>>})

\* {0 -> 0.00097855926, 2 -> 0.50588232}
SteepCurve == CurveOf({<<0, F(32835, -25)>>, <<2, F(8487297, -24)>>})

\* the curves of the tests: {0 -> 0.0, 100 -> 1.0}
SimpleCurve == CurveOf({<<0, F32Zero>>, <<100, F32One>>})

\* {20 -> 0.0, 80 -> 100.0}
CritCurve == CurveOf({<<20, F32Zero>>, <<80, F(25, 2)>>})

\* {30 -> 0.0, 40 -> 0.1, 55 -> 0.9, 61 -> 1.0}
UnevenCurve ==
    CurveOf({<<30, F32Zero>>, <<40, F(13421773, -27)>>, <<55, F(7549747, -23)>>,
             <<61, F32One>>})

\* FanCurve::default(): {40 -> 0.3, 50 -> 0.35, 60 -> 0.5, 70 -> 0.75, 80 -> 1.0}
DefaultCurve ==
    CurveOf({<<40, F(5033165, -24)>>, <<50, F(11744051, -25)>>, <<60, F(1, -1)>>,
             <<70, F(3, -2)>>, <<80, F32One>>})

\* {20 -> 0.4, 50 -> 0.35, ...} and {40 -> 0.1, 50 -> 0.35, ...}
CurveInvalidTemp ==
    CurveOf({<<20, F(13421773, -25)>>, <<50, F(11744051, -25)>>, <<60, F(1, -1)>>,
             <<70, F(3, -2)>>, <<80, F32One>>})

CurveInvalidSpeed ==
    CurveOf({<<40, F(13421773, -27)>>, <<50, F(11744051, -25)>>, <<60, F(1, -1)>>,
             <<70, F(3, -2)>>, <<80, F32One>>})

GridReadings ==
    {Reading(c, k) : c \in {None} \cup {Some(h) : h \in (-LowHalf)..MaxHalf},
                     k \in {None, Some(5)}}

\* the readings each curve is evaluated at: those of the tests for the tests'
\* curves (and 45.5 degrees), the grid for the others
ReadingsFor(c) ==
    IF c = SimpleCurve
      THEN {Reading(Deg(t), Deg(150)) : t \in {45, 0, 100, -5, 105}}
             \cup {Reading(Some(91), Deg(150))}
    ELSE IF c = CritCurve THEN {Reading(Deg(100), Deg(90))}
    ELSE IF c = UnevenCurve
      THEN {Reading(Deg(t), Deg(90)) : t \in {30, 35, 40, 47, 52, 53, 54}}
    ELSE IF c = DefaultCurve
      THEN {Reading(Deg(t), Deg(90)) : t \in {40, 60, 65, 70, 79, 85, 100}}
    ELSE GridReadings

EvalCurves ==
    GridCurves \cup {ShallowCurve, SteepCurve, SimpleCurve, CritCurve, UnevenCurve,
                     DefaultCurve}

\* curves whose keys lie further apart, or further from a reading, than an i32
\* holds: {i32::MIN -> 0.0, 100 -> 1.0}, {-2000000000 -> 0.0, 2000000000 -> 1.0},
\* and {i32::MIN -> 0.5}, where nothing is subtracted
WideCurves ==
    {CurveOf({<<I32Min, F32Zero>>, <<100, F32One>>}),
     CurveOf({<<-2000000000, F32Zero>>, <<2000000000, F32One>>}),
     CurveOf({<<I32Min, F(1, -1)>>})}

\* 0.0, 1.0, -0.5, 1.5, 0.5, the f32 above 1.0, the f32 below 1.0, -2^-100
ValidateRatioVals ==
    RatioVals \cup {F(1, -1), F(8388609, -23), F(16777215, -24), F(-1, -100)}

\* a hardware curve of n points, as read from the device
HwCurve(n, ranges) == [points |-> [i \in 1..n |-> <<0, 0>>], allowed_ranges |-> ranges]

Ranges(t, s) == [temperature_range |-> t, speed_range |-> s]

GridHw ==
    {HwCurve(n, r) : n \in 0..MaxPoints,
                     r \in {None} \cup {Some(Ranges(t, s)) :
                                          t \in {<<-1, 2>>, <<0, 2>>, <<0, 0>>},
                                          s \in {<<0, 100>>, <<30, 100>>}}}

\* 5 points, temperature 25..=100, speed 30..=100
TestHw == HwCurve(5, Some(Ranges(<<25, 100>>, <<30, 100>>)))

ConvertInputs ==
    (CurvesOver(ConvertRatioVals) \X GridHw)
      \cup ({DefaultCurve, CurveInvalidTemp, CurveInvalidSpeed} \X {TestHw})

----------------------------------------------------------------------------
(* the engine's operations applied to the inputs *)

FanIdle ==
    /\ curve = << >> /\ last = None /\ prev = None /\ hw = HwCurve(0, None)
    /\ conv = None /\ checked = None

\* curve.pwm_at_temp(temp)
PwmAtTemp ==
    /\ \E t \in ReadingsFor(curve) : \E out \in PwmOutcomes(curve, t) :
         last' = Some([temp |-> t, out |-> out])
    /\ prev' = last
    /\ UNCHANGED <<curve, hw, conv, checked, daemonVars>>

\* curve.into_pmfw_curve(current_pmfw_curve)
IntoPmfwCurve ==
    /\ conv' = Some(into_pmfw_curve(curve, hw))
    /\ UNCHANGED <<curve, hw, last, prev, checked, daemonVars>>

\* curve.validate()
Validate ==
    /\ checked' = Some(validate(curve))
    /\ UNCHANGED <<curve, last, prev, hw, conv, daemonVars>>

InitValidate ==
    /\ curve \in CurvesOver(ValidateRatioVals)
    /\ last = None /\ prev = None
    /\ hw = HwCurve(0, None) /\ conv = None /\ checked = None
    /\ DaemonInit

NextValidate == Validate

SpecValidate == InitValidate /\ [][NextValidate]_vars

InitEval ==
    /\ curve \in EvalCurves
    /\ last = None /\ prev = None
    /\ hw = HwCurve(0, None) /\ conv = None /\ checked = None
    /\ DaemonInit

NextEval == PwmAtTemp

SpecEval == InitEval /\ [][NextEval]_vars

\* the same calls, on the wide curves too
InitEvalWide ==
    /\ curve \in EvalCurves \cup WideCurves
    /\ last = None /\ prev = None
    /\ hw = HwCurve(0, None) /\ conv = None /\ checked = None
    /\ DaemonInit

SpecEvalWide == InitEvalWide /\ [][NextEval]_vars

InitConvert ==
    /\ \E input \in ConvertInputs : curve = input[1] /\ hw = input[2]
    /\ last = None /\ prev = None
    /\ conv = None /\ checked = None
    /\ DaemonInit

NextConvert == IntoPmfwCurve

SpecConvert == InitConvert /\ [][NextConvert]_vars

InitDaemon == FanIdle /\ DaemonInit

ExitStep == ExitSelect \/ CleanupFinish \/ SocketCleanup \/ ProcessExit

BridgeStep ==
    BridgeRecv \/ BridgeEnd \/ BridgeLock \/ BridgeWrite \/ BridgeApply \/ BridgeApplied

ReaderStep == \E r \in 1..NumReaders : ReadBegin(r) \/ ReadAcquire(r) \/ ReadRelease(r)

DebounceStep ==
    DebounceWake \/ DebounceRestart \/ DebounceElapsed \/ ReloadStart \/ ReloadDone

NextDaemon ==
    \/ Signal \/ ExitStep
    \/ WatcherSend \/ WatcherClose \/ BridgeStep
    \/ ReaderStep
    \/ Tick \/ KernelEvent \/ KernelFail \/ DebounceStep

SpecDaemon == InitDaemon /\ [][NextDaemon]_vars

\* run from the uptime gate on, with the shutdown coordinator once it is spawned
InitStartup ==
    /\ FanIdle /\ TasksInit
    /\ \E file \in UptimeFiles :
         gate = [pc |-> "gate", file |-> file, uptime |-> << >>, sleeps |-> 0, sleep_ms |-> 0]

NextStartup == EnsureUptime \/ SleepDone \/ ServerNew \/ Signal \/ ExitStep

SpecStartup == InitStartup /\ [][NextStartup]_vars

\* the shutdown coordinator beside the device-event debouncer
NextDevice == Signal \/ ExitStep \/ Tick \/ KernelEvent \/ KernelFail \/ DebounceStep

SpecDevice == InitDaemon /\ [][NextDevice]_vars

\* the same tasks under the runtime's scheduling: time passes, a task that can
\* be polled is polled, and the synchronous tail of the coordinator runs on
SpecDeviceFair ==
    /\ InitDaemon /\ [][NextDevice]_vars
    /\ WF_vars(Tick) /\ WF_vars(DebounceStep)
    /\ WF_vars(SocketCleanup \/ ProcessExit)

\* the three tasks of the LocalSet and the kernel listener, without readers
NextTasks ==
    \/ Signal \/ ExitStep
    \/ WatcherSend \/ WatcherClose \/ BridgeStep
    \/ Tick \/ KernelEvent \/ KernelFail \/ DebounceStep

SpecTasks == InitDaemon /\ [][NextTasks]_vars

\* the shutdown coordinator beside the config bridge and the readers of the config
NextConfig == Signal \/ ExitStep \/ WatcherSend \/ WatcherClose \/ BridgeStep \/ ReaderStep

SpecConfig == InitDaemon /\ [][NextConfig]_vars

----------------------------------------------------------------------------
(* Evaluate (pwm_at_temp) *)

LastTemp == Unwrap(last).temp

LastOut == Unwrap(last).out

\* a call that returned through the curve lookup, not through the critical clamp
Unclamped(call) == call.out.kind = "Ok" /\ ~call.out.warned

Adjacent(c, lo, hi) == lo < hi /\ ~\E k \in DOMAIN c : lo < k /\ k < hi

NonDecreasing(c) == \A a, b \in DOMAIN c : a < b => F32Leq(c[a], c[b])

\* C1: whatever the curve (empty, ratios outside [0,1]), a reading with current
\* present and crit present and current > crit evaluates to exactly 255 through
\* the clamp; the clamp does not fire when current = crit or crit is absent.
C1_CriticalClamp ==
    (IsSome(last) /\ IsSome(LastTemp.current)) =>
      /\ (IsSome(LastTemp.crit) /\ Unwrap(LastTemp.current) > Unwrap(LastTemp.crit))
           => (LastOut.kind = "Ok" /\ LastOut.val = 255 /\ LastOut.warned)
      /\ (~IsSome(LastTemp.crit) \/ LastTemp.current = LastTemp.crit)
           => ~LastOut.warned

\* the clamp has fired on the empty curve
C1_Witness ==
    /\ IsSome(last) /\ curve = << >>
    /\ IsSome(LastTemp.current) /\ IsSome(LastTemp.crit)
    /\ Unwrap(LastTemp.current) > Unwrap(LastTemp.crit)
    /\ LastOut.val = 255

\* the literal table of C2: <<curve, temperature, byte>>
PwmTable ==
    {<<SimpleCurve, 45, 114>>, <<UnevenCurve, 30, 0>>, <<UnevenCurve, 35, 12>>,
     <<UnevenCurve, 40, 25>>, <<UnevenCurve, 47, 120>>, <<UnevenCurve, 52, 188>>,
     <<UnevenCurve, 53, 202>>, <<UnevenCurve, 54, 215>>}

\* C2: for an unclamped reading at temperature t (in whole degrees, as the lookup
\* takes it) between adjacent keys lo <= t <= hi, the result is the byte of
\* r_lo + (r_hi - r_lo) * (t - lo) / (hi - lo); when t is a key the result is
\* exactly the byte of that key's ratio; the literal tables are reproduced.
C2_Interpolation ==
    (IsSome(last) /\ Unclamped(Unwrap(last))) =>
      LET t == as_i32(Unwrap(LastTemp.current)) IN
      /\ \A lo, hi \in DOMAIN curve :
           (Adjacent(curve, lo, hi) /\ lo <= t /\ t <= hi) =>
             LastOut.val =
               scale_to_u8(F32Add(curve[lo],
                             F32Mul(F32Sub(curve[hi], curve[lo]),
                                    F32DivInt(t - lo, hi - lo))))
      /\ t \in DOMAIN curve => LastOut.val = scale_to_u8(curve[t])
      /\ \A row \in PwmTable :
           (curve = row[1] /\ LastTemp.current = Deg(row[2])) => LastOut.val = row[3]

\* C3: for an unclamped reading on a non-empty curve, a current below the lowest
\* key gives the byte of the lowest key's ratio and a current above the highest
\* key gives the byte of the highest key's ratio.
C3_EndpointHold ==
    (IsSome(last) /\ Unclamped(Unwrap(last))) =>
      LET current == Unwrap(LastTemp.current)
          lowest == SetMin(DOMAIN curve)
          highest == SetMax(DOMAIN curve)
      IN  /\ current < lowest * TempDen => LastOut.val = scale_to_u8(curve[lowest])
          /\ current > highest * TempDen => LastOut.val = scale_to_u8(curve[highest])

\* C4: on a non-empty curve with non-decreasing ratios, two readings with the
\* same crit and current1 <= current2 evaluate to byte1 <= byte2.
C4_EvaluateMonotone ==
    ( /\ IsSome(prev) /\ IsSome(last)
      /\ DOMAIN curve # {} /\ NonDecreasing(curve)
      /\ IsSome(Unwrap(prev).temp.current) /\ IsSome(LastTemp.current)
      /\ Unwrap(prev).temp.crit = LastTemp.crit
      /\ Unwrap(Unwrap(prev).temp.current) <= Unwrap(LastTemp.current) )
    => Unwrap(prev).out.val <= LastOut.val

----------------------------------------------------------------------------
(* Convert (into_pmfw_curve) *)

ConvOut == Unwrap(conv)

\* the integer part of an f32 of magnitude below 2^31, toward zero
TruncInt(x) ==
    IF x.e >= 0 THEN x.m * Pow2(x.e)
    ELSE IF -x.e >= 25 THEN 0
    ELSE Sgn(x.m) * (Abs(x.m) \div Pow2(-x.e))

\* trunc(ratio * 100), the product taken in f32
TruncPercent(ratio) == TruncInt(F32Mul(F(25, 2), ratio))

Within(range, x) == range[1] <= x /\ x <= range[2]

\* C5: Convert succeeds iff the point counts are equal and every user point lies
\* within both allowed ranges (which the hardware then has), its percent being
\* trunc(ratio * 100); otherwise it returns an error and no hardware curve.
C5_ConvertLegality ==
    IsSome(conv) =>
      /\ ConvOut.kind = "Ok" <=>
           /\ IsSome(hw.allowed_ranges)
           /\ Len(hw.points) = Cardinality(DOMAIN curve)
           /\ \A k \in DOMAIN curve :
                /\ Within(Unwrap(hw.allowed_ranges).temperature_range, k)
                /\ Within(Unwrap(hw.allowed_ranges).speed_range, TruncPercent(curve[k]))
      /\ ConvOut.kind # "Ok" => (ConvOut.kind = "Err" /\ ConvOut.points = << >>)

\* the points expected of a successful conversion, given the percent of a ratio
PointsAre(percent(_)) ==
    /\ Len(ConvOut.points) = Len(hw.points)
    /\ Len(ConvOut.points) = Cardinality(DOMAIN curve)
    /\ \A i \in 1..Len(ConvOut.points) :
         /\ ConvOut.points[i][1] \in DOMAIN curve
         /\ ConvOut.points[i][2] = percent(curve[ConvOut.points[i][1]])
         /\ i > 1 => ConvOut.points[i - 1][1] < ConvOut.points[i][1]

PointsInRange ==
    /\ IsSome(hw.allowed_ranges)
    /\ ConvOut.allowed_ranges = hw.allowed_ranges
    /\ \A i \in 1..Len(ConvOut.points) :
         /\ Within(Unwrap(hw.allowed_ranges).temperature_range, ConvOut.points[i][1])
         /\ Within(Unwrap(hw.allowed_ranges).speed_range, ConvOut.points[i][2])

DefaultExample ==
    (curve = DefaultCurve /\ hw = TestHw) =>
      ConvOut.points = <<<<40, 30>>, <<50, 35>>, <<60, 50>>, <<70, 75>>, <<80, 100>>>>

\* C6: a successful Convert returns as many points as the hardware curve has,
\* the user points in ascending temperature order each mapped to (temperature,
\* trunc(ratio * 100)), every temperature and every percent within the allowed
\* ranges, and the input's allowedRanges.
C6_NoOutOfRangePoint ==
    (IsSome(conv) /\ ConvOut.kind = "Ok") =>
      PointsAre(TruncPercent) /\ PointsInRange /\ DefaultExample

----------------------------------------------------------------------------
(* the Shutdown Coordinator (listen_exit_signals) *)

\* C7: whichever signal arrives first and however many more arrive, handler
\* cleanup runs exactly once, then the socket removal exactly once, and only
\* after both the process exits once with status 0; cleanup never runs without a
\* signal, nothing of the path runs before cleanup has finished, and once a
\* signal has arrived the path has its next step to take at its every turn.
C7_ShutdownOnce ==
    /\ exit.cleanups <= 1 /\ exit.socket_cleanups <= 1 /\ exit.exits <= 1
    /\ exit.cleanups = 1 => exit.received # {}
    /\ exit.socket_cleanups = 1 => (exit.cleanups = 1 /\ exit.pc \in {"exit", "exited"})
    /\ exit.exits = 1 => (exit.socket_cleanups = 1 /\ proc = "exited")
    /\ proc = "exited" =>
         (exit.cleanups = 1 /\ exit.socket_cleanups = 1 /\ exit.exits = 1
            /\ exit.status = 0)
    /\ (ExitTurn /\ exit.received # {}) => ENABLED ExitStep

\* the process has exited after two signals, the second of another kind
C7_Witness ==
    /\ proc = "exited" /\ exit.delivered >= 2 /\ Cardinality(exit.received) >= 2
    /\ exit.cleanups = 1

(* the Debouncer (listen_device_events) *)

\* C8: from Idle, N >= 1 notifications each less than the quiet period after the
\* one before it cause at most one reload, not before the quiet period has
\* passed since the last of them; the reload is due once the period has passed
\* with no further notification, and the debouncer is not back in Idle without it.
C8_DebounceCoalescing ==
    (notify.events >= 1 /\ ~burst.spaced) =>
      /\ debounce.reloads <= 1
      /\ debounce.reloads = 1 => burst.since >= DRM_EVENT_TIMEOUT_PERIOD_MS
      /\ (debounce.pc = "idle" /\ ~notify.permit) => debounce.reloads = 1
      /\ ( /\ DebounceTurn /\ debounce.pc = "debounce" /\ ~notify.permit
           /\ debounce.elapsed >= DRM_EVENT_TIMEOUT_PERIOD_MS )
         => ENABLED DebounceElapsed

\* two notifications less than the quiet period apart have been answered by one
\* reload and the debouncer is back in Idle
C8_Witness ==
    /\ notify.events >= 2 /\ ~burst.spaced
    /\ debounce.reloads = 1 /\ debounce.pc = "idle" /\ ~notify.permit

(* the Config Bridge (listen_config_changes) *)

\* C9: from the write of a received snapshot on, through the apply and after it
\* has returned Ok or Err, the shared configuration is that snapshot; the
\* process ends only through the shutdown path; the bridge stops only when the
\* channel is closed and drained, and receives the next snapshot when one waits.
C9_KeepsNewConfigOnFailure ==
    /\ bridge.pc \in {"apply", "applying"} => config.value = bridge.new_config
    /\ (bridge.processed >= 1 /\ bridge.pc \in {"recv", "done"})
         => config.value = bridge.new_config
    /\ proc = "exited" => exit.pc = "exited"
    /\ bridge.pc = "done" => (~rx.open /\ rx.queue = << >>)
    /\ (BridgeTurn /\ bridge.pc = "recv" /\ rx.queue # << >>) => ENABLED BridgeRecv

\* an apply has failed and the bridge has received the next snapshot
C9_Witness ==
    /\ bridge.result = "Err" /\ bridge.processed = 1
    /\ bridge.pc = "lock" /\ bridge.new_config = 2 /\ config.value = 1

\* C10: a read that began after the write of a snapshot completed observes that
\* snapshot or a later one; no reader observes the configuration while the
\* write is in progress.
C10_ConfigVisibility ==
    \A r \in 1..NumReaders :
      readers[r].pc = "reading" =>
        (config.value >= readers[r].begun /\ ~config.writer /\ bridge.pc # "write")

\* a read that began after the first snapshot was written observes the second
C10_Witness ==
    \E r \in 1..NumReaders :
      readers[r].pc = "reading" /\ readers[r].begun = 1 /\ config.value = 2

----------------------------------------------------------------------------
(* the Uptime Gate (ensure_sufficient_uptime) *)

FirstIsNumber(file) == file.readable /\ file.tokens # << >> /\ Head(file.tokens).num

\* the remaining 15 - u in milliseconds, truncated, the arithmetic taken in f32
RemainingMillis(u) == TruncInt(F32Mul(F32Sub(F(15, 0), u), F(125, 3)))

\* C11: the gate always returns; when the uptime cannot be read or parsed, or
\* is at or above 15 s, it returns without sleeping; when the uptime u is below
\* 15 s it sleeps exactly once, for 15 - u truncated to whole milliseconds (for
\* an uptime in eighths of a second that is exactly 15000 - 1000 u); no task of
\* the daemon runs before the gate has returned.
C11_UptimeGate ==
    LET u == Head(gate.file.tokens).val
        started == gate.pc \in {"sleep", "returned", "spawned", "failed"}
    IN  /\ gate.sleeps <= 1
        /\ gate.pc = "sleep" => gate.sleeps = 1
        /\ (started /\ ~FirstIsNumber(gate.file)) =>
             (gate.sleeps = 0 /\ Unwrap(gate.uptime).kind = "Err")
        /\ (started /\ FirstIsNumber(gate.file) /\ F32Leq(F(15, 0), u)) => gate.sleeps = 0
        /\ (started /\ FirstIsNumber(gate.file) /\ F32Lt(u, F(15, 0))) =>
             /\ gate.sleeps = 1
             /\ gate.sleep_ms = RemainingMillis(u)
             /\ u.e >= -3 => gate.sleep_ms = 15000 - 125 * u.m * Pow2(u.e + 3)
        /\ (proc = "running" /\ gate.pc = "gate") => ENABLED EnsureUptime
        /\ (proc = "running" /\ gate.pc = "sleep") => ENABLED SleepDone
        /\ gate.pc \in {"gate", "sleep", "returned", "failed"} =>
             (exit.delivered = 0 /\ exit.pc = "select")

\* the gate has slept 899 ms at an uptime of 14.1 s, the tasks were spawned
\* after it and the shutdown coordinator has then run cleanup
C11_Witness ==
    /\ gate.pc = "spawned" /\ gate.sleeps = 1 /\ gate.sleep_ms = 899
    /\ exit.cleanups = 1

----------------------------------------------------------------------------
(* Validate *)

\* 0 <= m * 2^e <= 1, read off the mantissa and the exponent
InUnitInterval(r) == r.m = 0 \/ (r.m > 0 /\ (BitLen(r.m) + r.e <= 0 \/ (r.m = 1 /\ r.e = 0)))

\* C12: Validate returns ok iff every ratio of the curve lies in [0.0, 1.0], so
\* the empty curve validates and any ratio below 0.0 or above 1.0 makes it an
\* error; it never modifies the curve.
C12_Validate ==
    /\ [](IsSome(checked) =>
            (Unwrap(checked) = "Ok" <=> \A k \in DOMAIN curve : InUnitInterval(curve[k])))
    /\ [](IsSome(checked) => Unwrap(checked) \in {"Ok", "Err"})
    /\ [][curve' = curve]_vars

\* a curve holding 1.0 and the f32 just above it has been refused
C12_Witness ==
    /\ checked = Some("Err")
    /\ \E a, b \in DOMAIN curve : curve[a] = F32One /\ curve[b] = F(8388609, -23)

----------------------------------------------------------------------------
(* the Debouncer: when a reload starts *)

\* C13: a reload starts only from the expired wait, one at a time, when at
\* least one notification was received since the previous reload and a full
\* quiet period has passed since the debouncer received the latest one; the
\* wait expires only a full quiet period after the latest notification was
\* raised; every notification received while debouncing restarts the wait; and
\* while the notifications keep less than the quiet period apart and the latest
\* is younger than the quiet period, no reload has started.
C13_ReloadAfterQuiet ==
    /\ [][debounce'.reloads # debounce.reloads =>
            /\ debounce.pc = "expired" /\ debounce'.reloads = debounce.reloads + 1
            /\ debounce.taken >= 1
            /\ burst.quiet >= DRM_EVENT_TIMEOUT_PERIOD_MS]_vars
    /\ [][(debounce.pc = "debounce" /\ debounce'.pc = "expired") =>
            (burst.since >= DRM_EVENT_TIMEOUT_PERIOD_MS /\ ~notify.permit)]_vars
    /\ [][(debounce.pc = "debounce" /\ debounce'.taken = debounce.taken + 1) =>
            (debounce'.pc = "debounce" /\ debounce'.elapsed = 0 /\ burst'.quiet = 0)]_vars
    /\ []((notify.events >= 1 /\ ~burst.spaced /\ burst.since < DRM_EVENT_TIMEOUT_PERIOD_MS)
            => debounce.reloads = 0)

\* the wait was restarted by a second notification and has then expired
C13_Witness ==
    /\ debounce.pc = "expired" /\ debounce.taken = 2 /\ debounce.reloads = 0
    /\ burst.quiet >= DRM_EVENT_TIMEOUT_PERIOD_MS


\* C14: no lost hardware event. A notification raised before a reload started
\* is retained (in the Notify's slot, or by the debounce episode that took it)
\* whatever the debouncer is doing when it is raised; a retained notification
\* makes the idle debouncer start an episode at its next poll; and, the events
\* being finitely many, every notification is followed by a reload that
\* started after it, unless the process exits first.
C14_Retained ==
    notify.events > notify.covered
        => notify.permit \/ debounce.pc \in {"debounce", "expired"}

C14_NoLostEvent ==
    /\ [](C14_Retained)
    /\ []((DebounceTurn /\ debounce.pc = "idle" /\ notify.permit)
            => ENABLED DebounceWake)
    /\ \A n \in 1..MaxEvents :
         (notify.events >= n) ~> (notify.covered >= n \/ proc = "exited")

\* a notification raised while the first reload is running is kept in the slot
C14_Witness ==
    /\ debounce.reloads = 1 /\ debounce.pc = "reload"
    /\ notify.events = 2 /\ notify.covered = 1 /\ notify.permit
    /\ proc = "running"


(* Convert's errors *)

\* the point Convert stops at: the lowest temperature that is out of range or
\* whose percent, as percent gives it, is out of range
FirstViolation(ranges, percent(_)) ==
    LET bad == {k \in DOMAIN curve :
                  \/ ~Within(ranges.temperature_range, k)
                  \/ ~Within(ranges.speed_range, percent(curve[k]))}
    IN  IF bad = {} THEN None ELSE Some(CHOOSE k \in bad : \A j \in bad : k <= j)

\* the error Convert is to report, if any
SelectedError(percent(_)) ==
    IF Len(hw.points) # Cardinality(DOMAIN curve)
      THEN Some(<<"PointCount", Len(hw.points), Cardinality(DOMAIN curve)>>)
    ELSE IF ~IsSome(hw.allowed_ranges) THEN Some(<<"NoRanges">>)
    ELSE LET ranges == Unwrap(hw.allowed_ranges)
             first == FirstViolation(ranges, percent)
         IN  IF ~IsSome(first) THEN None
             ELSE LET k == Unwrap(first)
                  IN  IF ~Within(ranges.temperature_range, k)
                        THEN Some(<<"Temperature", k, ranges.temperature_range[1],
                                    ranges.temperature_range[2]>>)
                        ELSE Some(<<"Speed", percent(curve[k]), ranges.speed_range[1],
                                    ranges.speed_range[2]>>)

ErrorExamples ==
    /\ (curve = CurveInvalidTemp /\ hw = TestHw)
         => ConvOut.err = <<"Temperature", 20, 25, 100>>
    /\ (curve = CurveInvalidSpeed /\ hw = TestHw)
         => ConvOut.err = <<"Speed", 10, 30, 100>>

\* C15: Convert never panics and reports exactly one error, chosen in this
\* order: the point-count mismatch (even without allowed ranges), the absent
\* allowed ranges, then, for the first point in ascending temperature order
\* that violates a range, the temperature error with the temperature and its
\* bounds if the temperature is out of range, otherwise the speed error with
\* the percent trunc(ratio * 100) and its bounds.
C15_ErrorSelection ==
    IsSome(conv) =>
      /\ ConvOut.kind \in {"Ok", "Err"}
      /\ ConvOut.kind = "Err" <=> IsSome(SelectedError(TruncPercent))
      /\ ConvOut.kind = "Err" => ConvOut.err = Unwrap(SelectedError(TruncPercent))
      /\ ErrorExamples


(* Evaluate's neighbour searches *)

\* C16: in a call that reaches the lookup, the two neighbour searches cannot
\* find the same point, and a point whose temperature equals current (in whole
\* degrees) is found by the lower ("at or below") search and not by the higher
\* ("at or above") search.
C16_DisjointSearches ==
    (IsSome(last) /\ Unclamped(Unwrap(last))) =>
      LET current == as_i32(Unwrap(LastTemp.current))
          lower == maybe_lower(curve, current)
          higher == maybe_higher(curve, current)
      IN  /\ (IsSome(lower) /\ IsSome(higher)) => Unwrap(lower) < Unwrap(higher)
          /\ current \in DOMAIN curve
               => (lower = Some(current) /\ higher # Some(current))


(* Evaluate's fatal conditions *)

\* C17: Evaluate panics exactly when the reading has no current temperature
\* (crit present or not), or when the curve is empty and the critical clamp
\* does not fire; on every non-empty curve with current present it returns a
\* byte in 0..255, whatever the ratios.
C17_FatalConditions ==
    IsSome(last) =>
      LET clamp == /\ IsSome(LastTemp.current) /\ IsSome(LastTemp.crit)
                   /\ Unwrap(LastTemp.current) > Unwrap(LastTemp.crit)
      IN  /\ LastOut.kind = "Panic" <=>
                \/ ~IsSome(LastTemp.current)
                \/ DOMAIN curve = {} /\ ~clamp
          /\ (DOMAIN curve # {} /\ IsSome(LastTemp.current))
               => (LastOut.kind = "Ok" /\ LastOut.val \in 0..255)


(* failures of the kernel listener and of apply_current_config *)

\* the kernel listener, once ended, raises no notification and stays ended
ListenerEnded ==
    [][~notify.alive => (~notify'.alive /\ notify'.events = notify.events)]_vars

\* neither failure touches another task: the end of the listener changes
\* nothing but the listener, a failed apply nothing but the bridge
FailureLocal ==
    /\ [][(notify.alive /\ ~notify'.alive)
            => UNCHANGED <<proc, exit, bridge, rx, config, debounce>>]_vars
    /\ [][(bridge.pc = "applying" /\ bridge'.pc # "applying")
            => UNCHANGED <<proc, exit, rx, config, debounce, notify>>]_vars

\* the bridge ends only when the channel is closed and drained, and takes the
\* next snapshot whatever the last apply returned; the coordinator answers a
\* signal whatever has failed
OthersKeepRunning ==
    /\ [][(bridge.pc # "done" /\ bridge'.pc = "done")
            => (bridge.pc = "recv" /\ rx.queue = << >> /\ ~rx.open)]_vars
    /\ []((BridgeTurn /\ bridge.pc = "recv" /\ rx.queue # << >>) => ENABLED BridgeRecv)
    /\ []((ExitTurn /\ exit.pc = "select" /\ exit.received # {}) => ENABLED ExitSelect)

\* the process ends only at the end of the coordinator's path
OnlyCoordinatorExits ==
    /\ [][proc' # proc => (exit.pc = "exit" /\ exit'.pc = "exited" /\ proc' = "exited")]_vars
    /\ [](proc = "exited" =>
            (exit.cleanups = 1 /\ exit.socket_cleanups = 1 /\ exit.status = 0))

\* C18: a failure of the kernel event source ends only the kernel listener,
\* the debouncer from then on staying in Idle and triggering no further reload;
\* a failed apply ends nothing; after either failure the coordinator and the
\* bridge keep running, and only the coordinator's path ends the process.
C18_FailureIsolation ==
    /\ ListenerEnded /\ FailureLocal /\ OthersKeepRunning /\ OnlyCoordinatorExits
    /\ [](~notify.alive => debounce.pc = "idle")
    /\ [][~notify.alive => debounce'.reloads = debounce.reloads]_vars

\* C18 as the code has it: the debouncer still runs the episode of a
\* notification raised before the failure, reload included; once the listener
\* has ended and the debouncer is idle with no notification kept, it stays so.
C18_FailureIsolationAmended ==
    /\ ListenerEnded /\ FailureLocal /\ OthersKeepRunning /\ OnlyCoordinatorExits
    /\ [][(~notify.alive /\ debounce.pc = "idle" /\ ~notify.permit)
            => (debounce' = debounce /\ ~notify'.permit)]_vars

\* after the listener has failed with a notification kept, the debouncer has
\* reloaded and gone idle; the bridge, after a failed apply, is applying the
\* next snapshot; the coordinator has ended the process
C18_Witness ==
    /\ ~notify.alive /\ debounce.pc = "idle" /\ ~notify.permit
    /\ debounce.reloads = 1 /\ notify.events = 1
    /\ bridge.result = "Err" /\ bridge.pc = "applying"
    /\ exit.pc = "exited" /\ proc = "exited"


(* the Config Bridge's steps *)

\* 1 while the bridge is in one of the given steps, else 0
InStep(pcs) == IF bridge.pc \in pcs THEN 1 ELSE 0

\* each snapshot taken from the channel is swapped in once and applied once
OncePerSnapshot ==
    /\ bridge.swaps = bridge.processed + InStep({"apply", "applying"})
    /\ bridge.applies = bridge.processed + InStep({"applying"})
    /\ bridge.processed + InStep({"lock", "write", "apply", "applying"})
         + Len(rx.queue) = rx.sent

\* snapshots are taken in the order sent, and the shared configuration is the
\* last one swapped in
InOrderSent ==
    /\ bridge.pc \in {"lock", "write", "apply", "applying"}
         => bridge.new_config = bridge.processed + 1
    /\ \A i \in 1..Len(rx.queue) : rx.queue[i] = rx.sent - Len(rx.queue) + i
    /\ config.value = bridge.swaps

\* the write lock is held for the swap only, and excludes every reader
LockForSwapOnly ==
    /\ config.writer <=> (bridge.pc = "write")
    /\ config.writer => \A r \in 1..NumReaders : readers[r].pc # "reading"

\* a reader waiting while apply_current_config runs is let in
ReadableWhileApplying ==
    \A r \in 1..NumReaders :
      (ReaderTurn /\ bridge.pc = "applying" /\ readers[r].pc = "waiting")
        => ENABLED ReadAcquire(r)

\* with nothing left to process, the shared configuration is the last snapshot
LastSnapshotWins ==
    (bridge.pc = "done" \/ (bridge.pc = "recv" /\ rx.queue = << >>))
      => (config.value = rx.sent /\ bridge.processed = rx.sent)

\* C19: every snapshot received is swapped in exactly once, under the
\* exclusive write lock, which is released before apply_current_config is
\* called, exactly once, for it (a reader is let in while it runs); snapshots
\* are handled in the order sent, one at a time, so once the last one has been
\* processed the shared configuration equals it.
C19_BridgeStepOrder ==
    /\ [](OncePerSnapshot) /\ [](InOrderSent) /\ [](LockForSwapOnly)
    /\ [](ReadableWhileApplying) /\ [](LastSnapshotWins)
    /\ [][config'.value # config.value
            => (config.writer /\ config'.value = bridge.new_config)]_vars

\* two snapshots have been swapped in and applied, one after the other, a
\* reader reading the second while it was being applied, and the bridge has ended
C19_Witness ==
    /\ bridge.pc = "done" /\ rx.sent = 2
    /\ bridge.swaps = 2 /\ bridge.applies = 2 /\ config.value = 2
    /\ \E r \in 1..NumReaders : readers[r].pc = "reading" /\ readers[r].begun = 1


(* the handler's operations during shutdown *)

\* C20: from the moment the coordinator has called handler.cleanup() until the
\* process exits, no other task starts a reload_gpus call or an
\* apply_current_config call, wherever cleanup is suspended.
C20_CleanupIsLast ==
    [][exit.pc \in {"cleanup", "socket", "exit"}
        => (debounce'.reloads = debounce.reloads /\ bridge'.applies = bridge.applies)]_vars

====
